---- MODULE Spec2Model ----
(***************************************************************************)
(* A model of the fixed-block memory pool of src/main.cpp: MemoryPool      *)
(* (constructor, destructor, allocate, deallocate, hasAvailableMemory),    *)
(* make_unique_pool / PoolManager::create and the unique_ptr handle with   *)
(* its deleter.  The pool is single-threaded: every call runs to its end,  *)
(* so every call is one action.                                            *)
(***************************************************************************)
EXTENDS Integers, Sequences, FiniteSets

(* ------------------------------ bounds -------------------------------- *)

\* Largest capacity a pool is constructed with.
MaxCap == 3

\* Number of unique_ptr handle variables the caller owns.
NumHandles == 2

\* Largest number of repetitions of deallocate(allocate()) in one round trip.
MaxRepeat == 2

\* Largest number of pointers beyond the capacity that unchecked deallocate()
\* calls put into circulation.
MaxExtra == 3

\* Largest capacity of a pool whose callers break the precondition of deallocate().
MaxMisuseCap == 1

\* The largest capacity of a pool that stores containers.
MaxVecCap == 3

\* The number of push_back calls on the vector (three in main()).
MaxPush == 3

\* The largest element count n of a storage request allocate(n).
MaxRequest == 2

(* ----------------------------- constants ------------------------------ *)

\* sizeof(int), the block size of the demonstration pool.
SizeofInt == 4

\* sizeof(vector<int, PoolAllocator<int>>): three pointers and the allocator's
\* reference to the pool, on a 64-bit build.
SizeofVec == 32

\* nullptr: what malloc returns on failure, and what an empty unique_ptr holds.
NULL == 0

\* The addresses malloc can return: the i-th request of the constructor, when
\* it succeeds, returns address i (malloc never returns a live address twice).
Addr == 1..MaxCap

Ptr == Addr \cup {NULL}

\* An address that no malloc of the constructor returned.
Foreign == MaxCap + 1

\* Every pointer a caller can pass to deallocate().
AnyPtr == Ptr \cup {Foreign}

Slots == 1..NumHandles

\* The constructor arguments of the demonstration (create<int>(42), (100)).
Values == {42, 100}

\* A block that holds no constructed value.
NoValue == -1

BlockSizes == {SizeofInt}

\* The block sizes of pools that store containers: main()'s, and one large enough
\* for the vector object and its buffers.
VecBlockSizes == {SizeofInt, SizeofVec}

\* The value of a block in which a vector<int, PoolAllocator<int>> object lives.
VecObject == 0

\* No vector exists.
NoVec == [at |-> NULL, buf |-> NULL, size |-> 0, cap |-> 0]

VARIABLES
    phase,      \* the pool object: "none" (not yet constructed), "alive",
                \* "destroyed", "ctor_failed" (the constructor threw), "crashed"
                \* (the process faulted); the last three end the pool's life, and
                \* a handle used after them is the caller error the design names
    blockSize,  \* MemoryPool::blockSize
    capacity,   \* MemoryPool::capacity
    blocks,     \* MemoryPool::blocks, the free stack (a sequence of pointers)
    acquired,   \* the system heap: addresses malloc returned to the constructor
    freed,      \* the system heap: number of free() calls per address
    out,        \* the raw callers: number of un-returned allocate() results per pointer
    handles,    \* the unique_ptr variables: the pointer each one holds (NULL: empty)
    value,      \* the memory: the T value living in each block, or NoValue
    lastOp,     \* the last call: its name, outcome, result and its sequence of effects
    run,        \* the results of the allocate() calls made since construction,
                \* as long as nothing else was called
    vec         \* the vector<int, PoolAllocator<int>> the caller created in the pool:
                \* the block the object lives in (NULL: no vector), its buffer,
                \* its size and its capacity

vars == <<phase, blockSize, capacity, blocks, acquired, freed, out, handles, value, lastOp, run, vec>>

Range(s) == {s[i] : i \in 1..Len(s)}

(* --------------------------- MemoryPool -------------------------------- *)

\* malloc(blockSize) for the i-th block: NULL when the request fails.
malloc(i, failing) == IF i \in failing THEN NULL ELSE i

\* A constructor loop that stops one block short (i + 1 < capacity).
RECURSIVE CtorLoopShort(_, _, _, _)
CtorLoopShort(i, cap, failing, b) ==
    IF i >= cap THEN b
    ELSE CtorLoopShort(i + 1, cap, failing, Append(b, malloc(i, failing)))

\* The constructor's loop: pushes whatever malloc returned, NULL included.
RECURSIVE CtorLoop(_, _, _, _)
CtorLoop(i, cap, failing, b) ==
    IF i > cap THEN b
    ELSE CtorLoop(i + 1, cap, failing, Append(b, malloc(i, failing)))

\* A query that asks for more than one block (size() > 1).
hasAvailableMemoryOffByOne(b) == Len(b) > 1

\* blocks.empty() negated.
hasAvailableMemory(b) == b # <<>>

\* allocate() without the pop_back(): the block stays in the free stack.
allocateNoPop(b) ==
    IF b = <<>>
    THEN [ok |-> FALSE, block |-> NULL, blocks |-> b]
    ELSE [ok |-> TRUE, block |-> b[Len(b)], blocks |-> b]

\* allocate() without the empty() check: hands out a null pointer instead of throwing.
allocateUnchecked(b) ==
    IF b = <<>>
    THEN [ok |-> TRUE, block |-> NULL, blocks |-> b]
    ELSE [ok |-> TRUE, block |-> b[Len(b)], blocks |-> SubSeq(b, 1, Len(b) - 1)]

\* allocate() with the check off by one (size() <= 1): throws with a block left.
allocateOffByOne(b) ==
    IF Len(b) <= 1
    THEN [ok |-> FALSE, block |-> NULL, blocks |-> b]
    ELSE [ok |-> TRUE, block |-> b[Len(b)], blocks |-> SubSeq(b, 1, Len(b) - 1)]

\* allocate() with pop_back() called twice.
allocatePopsTwo(b) ==
    IF b = <<>>
    THEN [ok |-> FALSE, block |-> NULL, blocks |-> b]
    ELSE [ok |-> TRUE, block |-> b[Len(b)], blocks |-> SubSeq(b, 1, Len(b) - 2)]

\* MemoryPool::allocate on free stack b: bad_alloc when empty, else pops the back.
allocate(b) ==
    IF b = <<>>
    THEN [ok |-> FALSE, block |-> NULL, blocks |-> b]
    ELSE [ok |-> TRUE, block |-> b[Len(b)], blocks |-> SubSeq(b, 1, Len(b) - 1)]

\* A deallocate() that drops a pointer the free stack already holds.
deallocateChecked(b, p) == IF \E i \in 1..Len(b) : b[i] = p THEN b ELSE Append(b, p)

\* MemoryPool::deallocate: pushes the pointer, unchecked.
deallocate(b, p) == Append(b, p)

\* One effect of a call, as the deleter produces them: the event, the block, whether
\* the block held a constructed value and whether it lay in the free stack just before.
Event(ev, p, s) ==
    [ev |-> ev, addr |-> p, live |-> s.value[p] # NoValue, pooled |-> p \in Range(s.blocks)]

\* PoolAllocator::allocate with the zero-size request treated as any other.
PoolAllocator_allocateZeroPops(b, n) ==
    IF ~hasAvailableMemory(b) THEN [ok |-> FALSE, block |-> NULL, blocks |-> b]
    ELSE allocate(b)

\* PoolAllocator::allocate refusing to hand out the last free block.
PoolAllocator_allocateKeepsOne(b, n) ==
    IF n = 0 THEN [ok |-> TRUE, block |-> NULL, blocks |-> b]
    ELSE IF Len(b) <= 1 THEN [ok |-> FALSE, block |-> NULL, blocks |-> b]
    ELSE allocate(b)

\* PoolAllocator<T>::allocate(n) of src/main.cpp on free stack b: nullptr for
\* n = 0, bad_alloc (ok = FALSE) when the pool reports no free block, and
\* otherwise whatever pool.allocate() gives, n playing no part.
PoolAllocator_allocate(b, n) ==
    IF n = 0 THEN [ok |-> TRUE, block |-> NULL, blocks |-> b]
    ELSE IF ~hasAvailableMemory(b) THEN [ok |-> FALSE, block |-> NULL, blocks |-> b]
    ELSE allocate(b)

\* PoolAllocator<T>::allocate(n) of src/unnamed/part_000: no look at
\* hasAvailableMemory(), pool.allocate() is called directly.
PoolAllocator_allocate_part_000(b, n) ==
    IF n = 0 THEN [ok |-> TRUE, block |-> NULL, blocks |-> b]
    ELSE allocate(b)

\* PoolAllocator::deallocate(p, n): n is ignored.
PoolAllocator_deallocate(b, p, n) == deallocate(b, p)

\* A growth step that gives the old buffer back before it asks for the new one.
growFreesFirst(b, old, oldcap, newcap) ==
    PoolAllocator_allocate(IF old = NULL THEN b ELSE PoolAllocator_deallocate(b, old, oldcap),
                           newcap)

\* The vector's growth step on free stack b: the new buffer of newcap elements is
\* allocated first; only when that succeeded are the elements copied and the old
\* buffer (if any) deallocated.  A bad_alloc leaves everything as it was.
grow(b, old, oldcap, newcap) ==
    LET r == PoolAllocator_allocate(b, newcap)
    IN IF ~r.ok \/ old = NULL THEN r
       ELSE [r EXCEPT !.blocks = PoolAllocator_deallocate(@, old, oldcap)]

\* ~vector(): the buffer, if there is one, goes back through the allocator.
destroyVector(s) ==
    IF s.vec.buf = NULL THEN [s EXCEPT !.vec = NoVec]
    ELSE [s EXCEPT !.vec = NoVec,
                   !.blocks = PoolAllocator_deallocate(@, s.vec.buf, s.vec.cap),
                   !.log = Append(@, Event("dealloc", s.vec.buf, s))]

\* T's destructor on the value in block p (ptr->~T()); a vector's destructor
\* releases its buffer.
destroyValue(s, p) ==
    LET d == [s EXCEPT !.value[p] = NoValue, !.log = Append(@, Event("dtor", p, s))]
    IN IF s.vec.at = p THEN destroyVector(d) ELSE d

\* pool.deallocate(ptr) as the deleter's second statement.
returnBlock(s, p) ==
    [s EXCEPT !.blocks = deallocate(@, p), !.log = Append(@, Event("dealloc", p, s))]

\* A deleter with its two statements swapped.
deleterDeallocFirst(s, p) == destroyValue(returnBlock(s, p), p)

\* A deleter that forgets pool.deallocate(ptr).
deleterNoReturn(s, p) == destroyValue(s, p)

\* A deleter that calls pool.deallocate(ptr) twice.
deleterReturnsTwice(s, p) == returnBlock(returnBlock(destroyValue(s, p), p), p)

\* The deleter lambda of make_unique_pool: destructor first, then deallocate.
deleter(s, p) == returnBlock(destroyValue(s, p), p)

\* What unique_ptr does with the pointer p it gives up (its destructor, reset(),
\* move assignment): runs the deleter on p unless p is null.
reset(s, p) == IF p = NULL THEN s ELSE deleter(s, p)

\* unique_ptr's move: the source gives its pointer up and is left empty.
moveHandle(hs, src, dst) == [hs EXCEPT ![dst] = hs[src], ![src] = NULL]

\* The pool and memory as the deleter sees them, with an empty effect log.
Mem == [blocks |-> blocks, value |-> value, vec |-> vec, log |-> <<>>]

\* The effect of a placement in block p: what was placed (a T built from arg by
\* placement new, or a container's buffer), the bytes it takes and the bytes the
\* block has.
Placed(ev, p, arg, need) ==
    [ev |-> ev, addr |-> p, arg |-> arg, need |-> need, have |-> blockSize]

NoOp == [op |-> "none", outcome |-> "ok", ret |-> NULL, log |-> <<>>]

Op(name, outcome, ret, log) == [op |-> name, outcome |-> outcome, ret |-> ret, log |-> log]

Stopped == [active |-> FALSE, res |-> <<>>]

Init ==
    /\ phase = "none"
    /\ blockSize = 0
    /\ capacity = 0
    /\ blocks = <<>>
    /\ acquired = {}
    /\ freed = [a \in Addr |-> 0]
    /\ out = [p \in AnyPtr |-> 0]
    /\ handles = [h \in Slots |-> NULL]
    /\ value = [a \in Addr |-> NoValue]
    /\ lastOp = NoOp
    /\ run = Stopped
    /\ vec = NoVec

\* MemoryPool::MemoryPool(blockSize, capacity); the malloc requests in `failing`
\* return NULL, which the loop pushes like any other pointer.
Construct(bs, cap, failing) ==
    /\ phase = "none"
    /\ phase' = "alive"
    /\ blockSize' = bs
    /\ capacity' = cap
    /\ blocks' = CtorLoop(1, cap, failing, <<>>)
    /\ acquired' = (1..cap) \ failing
    /\ lastOp' = Op("construct", "ok", NULL, <<>>)
    /\ run' = [active |-> TRUE, res |-> <<>>]
    /\ UNCHANGED <<freed, out, handles, value, vec>>

\* blocks.reserve(capacity) throws (bad_alloc, length_error) before any malloc.
ConstructReserveThrows(bs, cap) ==
    /\ phase = "none"
    /\ phase' = "ctor_failed"
    /\ lastOp' = Op("construct", "reserve_throw", NULL, <<>>)
    /\ UNCHANGED <<blockSize, capacity, blocks, acquired, freed, out, handles, value, run, vec>>

\* The number of times pointer p occurs in the free stack b.
Occurrences(b, p) == Cardinality({i \in 1..Len(b) : b[i] = p})

\* MemoryPool::~MemoryPool: free() on every pointer of the free stack (free(NULL)
\* does nothing); the vector goes with the pool.
Destroy ==
    /\ phase = "alive"
    /\ phase' = "destroyed"
    /\ freed' = [a \in Addr |-> freed[a] + Occurrences(blocks, a)]
    /\ blocks' = <<>>
    /\ lastOp' = Op("destroy", "ok", NULL, <<>>)
    /\ run' = Stopped
    /\ UNCHANGED <<blockSize, capacity, acquired, out, handles, value, vec>>

\* A caller's pool.allocate(), the result kept as a raw pointer.
Allocate ==
    /\ phase = "alive"
    /\ LET r == allocate(blocks) IN
        /\ blocks' = r.blocks
        /\ out' = IF r.ok THEN [out EXCEPT ![r.block] = @ + 1] ELSE out
        /\ lastOp' = Op("allocate", IF r.ok THEN "ok" ELSE "exhausted", r.block, <<>>)
        /\ run' = IF run.active /\ Len(run.res) <= capacity
                  THEN [run EXCEPT !.res = Append(@, [ok |-> r.ok, block |-> r.block])]
                  ELSE run
    /\ UNCHANGED <<phase, blockSize, capacity, acquired, freed, handles, value, vec>>

\* A caller's pool.deallocate(p) of a raw pointer it got from allocate() and still
\* holds (the precondition of deallocate).
Deallocate(p) ==
    /\ phase = "alive"
    /\ out[p] > 0
    /\ blocks' = deallocate(blocks, p)
    /\ out' = [out EXCEPT ![p] = @ - 1]
    /\ lastOp' = Op("deallocate", "ok", p, <<>>)
    /\ run' = Stopped
    /\ UNCHANGED <<phase, blockSize, capacity, acquired, freed, handles, value, vec>>

\* A caller's pool.hasAvailableMemory(): a const query, its answer in the outcome.
HasAvailable ==
    /\ phase = "alive"
    /\ lastOp' = Op("hasAvailableMemory",
                    IF hasAvailableMemory(blocks) THEN "true" ELSE "false", NULL, <<>>)
    /\ run' = Stopped
    /\ UNCHANGED <<phase, blockSize, capacity, blocks, acquired, freed, out, handles, value, vec>>

\* pool.deallocate(pool.allocate()) n times over; a bad_alloc ends the sequence.
RECURSIVE roundTrip(_, _)
roundTrip(b, n) ==
    IF n = 0 THEN [ok |-> TRUE, blocks |-> b]
    ELSE LET r == allocate(b) IN
         IF r.ok THEN roundTrip(deallocate(r.blocks, r.block), n - 1)
         ELSE [ok |-> FALSE, blocks |-> r.blocks]

RoundTrip(n) ==
    /\ phase = "alive"
    /\ LET r == roundTrip(blocks, n) IN
        /\ blocks' = r.blocks
        /\ lastOp' = Op("roundtrip", IF r.ok THEN "ok" ELSE "exhausted", n, <<>>)
    /\ run' = Stopped
    /\ UNCHANGED <<phase, blockSize, capacity, acquired, freed, out, handles, value, vec>>

\* auto h = make_unique_pool<T>(pool, v) (PoolManager::create), h a new handle
\* variable: allocate, placement new, wrap.  `throws`: T's constructor throws.  A
\* bad_alloc of allocate leaves everything as it was; a constructor exception
\* leaves the function with the block popped and no handle made.
CreateExhausted(h, v) ==
    /\ ~allocate(blocks).ok
    /\ lastOp' = Op("create", "exhausted", NULL, <<>>)
    /\ UNCHANGED <<phase, blocks, handles, value>>

CreateThrows(h, v) ==
    /\ allocate(blocks).ok
    /\ allocate(blocks).block # NULL
    /\ blocks' = allocate(blocks).blocks
    /\ lastOp' = Op("create", "ctor_throw", allocate(blocks).block, <<>>)
    /\ UNCHANGED <<phase, handles, value>>

CreateOk(h, v) ==
    /\ allocate(blocks).ok
    /\ allocate(blocks).block # NULL
    /\ blocks' = allocate(blocks).blocks
    /\ value' = [value EXCEPT ![allocate(blocks).block] = v]
    /\ handles' = [handles EXCEPT ![h] = allocate(blocks).block]
    /\ lastOp' = Op("create", "ok", allocate(blocks).block,
                    <<Placed("ctor", allocate(blocks).block, v, SizeofInt)>>)
    /\ UNCHANGED phase

\* Placement new on a null block is undefined: the build either faults on the
\* store, or (no store made) goes on to wrap the null pointer, which is an empty
\* unique_ptr.
CreateOnNull(h, v) ==
    /\ allocate(blocks).ok
    /\ allocate(blocks).block = NULL
    /\ \/ /\ phase' = "crashed"
          /\ lastOp' = Op("create", "fault", NULL, <<>>)
          /\ UNCHANGED <<blocks, handles, value>>
       \/ /\ blocks' = allocate(blocks).blocks
          /\ lastOp' = Op("create", "null_block", NULL, <<>>)
          /\ UNCHANGED <<phase, handles, value>>

Create(h, v, throws) ==
    /\ phase = "alive"
    /\ handles[h] = NULL
    /\ \/ CreateExhausted(h, v)
       \/ throws /\ CreateThrows(h, v)
       \/ ~throws /\ CreateOk(h, v)
       \/ CreateOnNull(h, v)
    /\ run' = Stopped
    /\ UNCHANGED <<blockSize, capacity, acquired, freed, out, vec>>

\* The handle's release (unique_ptr's destructor or reset()): the deleter runs on
\* the pointer unless the handle is empty, and the handle is left empty.
Release(h) ==
    /\ phase = "alive"
    /\ LET s == reset(Mem, handles[h]) IN
        /\ blocks' = s.blocks
        /\ value' = s.value
        /\ vec' = s.vec
        /\ handles' = [handles EXCEPT ![h] = NULL]
        /\ lastOp' = Op("release", "ok", handles[h], s.log)
    /\ run' = Stopped
    /\ UNCHANGED <<phase, blockSize, capacity, acquired, freed, out>>

\* dst = std::move(src): dst takes src's pointer, src is left empty, and the
\* pointer dst held before is released through the deleter.
Move(src, dst) ==
    /\ phase = "alive"
    /\ src # dst
    /\ LET s == reset(Mem, handles[dst]) IN
        /\ blocks' = s.blocks
        /\ value' = s.value
        /\ vec' = s.vec
        /\ handles' = moveHandle(handles, src, dst)
        /\ lastOp' = Op("move", "ok", handles[src], s.log)
    /\ run' = Stopped
    /\ UNCHANGED <<phase, blockSize, capacity, acquired, freed, out>>

\* The number of pointers in circulation: in the free stack or with a raw caller.
Circulation ==
    Len(blocks) + Cardinality(UNION {{<<p, i>> : i \in 1..out[p]} : p \in AnyPtr})

\* A caller's pool.deallocate(p) with any pointer at all: one it holds, one it has
\* returned already (double free), or one that never came from the pool (Foreign
\* stands for every such address, the null pointer is another).
DeallocateUnchecked(p) ==
    /\ phase = "alive"
    /\ p \in (1..capacity) \cup {NULL, Foreign}
    /\ out[p] > 0 \/ Circulation < capacity + MaxExtra
    /\ blocks' = deallocate(blocks, p)
    /\ out' = IF out[p] > 0 THEN [out EXCEPT ![p] = @ - 1] ELSE out
    /\ lastOp' = Op("deallocate", "ok", p, <<>>)
    /\ run' = Stopped
    /\ UNCHANGED <<phase, blockSize, capacity, acquired, freed, handles, value, vec>>

\* A container's storage request allocator.allocate(n) (PoolAllocator<int>); the
\* caller keeps what it gets.
AllocatorAllocate(n) ==
    /\ phase = "alive"
    /\ LET r == PoolAllocator_allocate(blocks, n) IN
        /\ blocks' = r.blocks
        /\ out' = IF r.ok /\ n > 0 THEN [out EXCEPT ![r.block] = @ + 1] ELSE out
        /\ lastOp' = Op("allocator_allocate", IF r.ok THEN "ok" ELSE "exhausted", r.block,
                        <<Placed("buffer", r.block, n, n * SizeofInt)>>)
    /\ run' = Stopped
    /\ UNCHANGED <<phase, blockSize, capacity, acquired, freed, handles, value, vec>>

\* A container's allocator.deallocate(p, n) of storage it holds.
AllocatorDeallocate(p, n) ==
    /\ phase = "alive"
    /\ out[p] > 0
    /\ blocks' = PoolAllocator_deallocate(blocks, p, n)
    /\ out' = [out EXCEPT ![p] = @ - 1]
    /\ lastOp' = Op("allocator_deallocate", "ok", p, <<>>)
    /\ run' = Stopped
    /\ UNCHANGED <<phase, blockSize, capacity, acquired, freed, handles, value, vec>>

\* What the build can do after an object of `need` bytes was written into a block:
\* beyond the block's size the write is a heap overflow, which goes unnoticed or
\* brings the process down.
AfterWrite(need) == IF need > blockSize THEN {"alive", "crashed"} ELSE {"alive"}

\* auto vec = poolManager.create<vector<int, PoolAllocator<int>>>(PoolAllocator<int>(pool)):
\* make_unique_pool with T the vector type.  The vector's constructor copies the
\* allocator, allocates nothing and does not throw.
CreateVecOk(h) ==
    /\ allocate(blocks).ok
    /\ allocate(blocks).block # NULL
    /\ blocks' = allocate(blocks).blocks
    /\ value' = [value EXCEPT ![allocate(blocks).block] = VecObject]
    /\ handles' = [handles EXCEPT ![h] = allocate(blocks).block]
    /\ vec' = [at |-> allocate(blocks).block, buf |-> NULL, size |-> 0, cap |-> 0]
    /\ lastOp' = Op("create", "ok", allocate(blocks).block,
                    <<Placed("ctor", allocate(blocks).block, VecObject, SizeofVec)>>)
    /\ phase' \in AfterWrite(SizeofVec)

CreateVec(h) ==
    /\ phase = "alive"
    /\ handles[h] = NULL
    /\ vec.at = NULL
    /\ \/ CreateExhausted(h, VecObject) /\ UNCHANGED vec
       \/ CreateOnNull(h, VecObject) /\ UNCHANGED vec
       \/ CreateVecOk(h)
    /\ run' = Stopped
    /\ UNCHANGED <<blockSize, capacity, acquired, freed, out>>

\* The capacities a full vector of capacity cap may grow to (the library's choice;
\* libstdc++ doubles).
GrowthChoices(cap) == IF cap = 0 THEN {1} ELSE (cap + 1)..(2 * cap)

\* vec->push_back(x).  With room left the element is stored in place; a full vector
\* grows first.  A null new buffer (a block whose malloc failed) faults on the
\* first store.
PushBackInPlace ==
    /\ vec.size < vec.cap
    /\ vec' = [vec EXCEPT !.size = @ + 1]
    /\ lastOp' = Op("push_back", "ok", vec.buf, <<>>)
    /\ UNCHANGED <<phase, blocks>>

PushBackGrow(newcap) ==
    /\ vec.size = vec.cap
    /\ LET g == grow(blocks, vec.buf, vec.cap, newcap) IN
        \/ /\ ~g.ok
           /\ lastOp' = Op("push_back", "exhausted", NULL, <<>>)
           /\ UNCHANGED <<phase, blocks, vec>>
        \/ /\ g.ok
           /\ g.block = NULL
           /\ phase' = "crashed"
           /\ lastOp' = Op("push_back", "fault", NULL, <<>>)
           /\ UNCHANGED <<blocks, vec>>
        \/ /\ g.ok
           /\ g.block # NULL
           /\ blocks' = g.blocks
           /\ vec' = [vec EXCEPT !.buf = g.block, !.cap = newcap, !.size = @ + 1]
           /\ lastOp' = Op("push_back", "ok", g.block,
                           <<Placed("buffer", g.block, newcap, newcap * SizeofInt)>>)
           /\ phase' \in AfterWrite(newcap * SizeofInt)

PushBack ==
    /\ phase = "alive"
    /\ vec.at # NULL
    /\ vec.size < MaxPush
    /\ \/ PushBackInPlace
       \/ \E newcap \in GrowthChoices(vec.cap) : PushBackGrow(newcap)
    /\ run' = Stopped
    /\ UNCHANGED <<blockSize, capacity, acquired, freed, out, handles, value>>

Next ==
    \/ \E bs \in BlockSizes, cap \in 0..MaxCap :
         \E failing \in SUBSET (1..cap) : Construct(bs, cap, failing)
    \/ \E bs \in BlockSizes, cap \in 0..MaxCap : ConstructReserveThrows(bs, cap)
    \/ Destroy
    \/ Allocate
    \/ \E p \in Ptr : Deallocate(p)
    \/ HasAvailable
    \/ \E n \in 1..MaxRepeat : RoundTrip(n)
    \/ \E h \in Slots, v \in Values, throws \in BOOLEAN : Create(h, v, throws)
    \/ \E h \in Slots : Release(h)
    \/ \E src \in Slots, dst \in Slots : Move(src, dst)

Spec == Init /\ [][Next]_vars

\* The raw interface with callers that break the precondition of deallocate().
NextMisuse ==
    \/ \E bs \in BlockSizes, cap \in 0..MaxMisuseCap :
         \E failing \in SUBSET (1..cap) : Construct(bs, cap, failing)
    \/ Allocate
    \/ \E p \in AnyPtr : DeallocateUnchecked(p)

SpecMisuse == Init /\ [][NextMisuse]_vars

\* The pool as the store of containers: a vector<int, PoolAllocator<int>> created
\* in a block and grown by push_back, and other containers' storage requests.
NextVec ==
    \/ \E bs \in VecBlockSizes, cap \in 0..MaxVecCap :
         \E failing \in SUBSET (1..cap) : Construct(bs, cap, failing)
    \/ \E h \in Slots : CreateVec(h)
    \/ PushBack
    \/ \E h \in Slots : Release(h)
    \/ \E n \in 0..MaxRequest : AllocatorAllocate(n)
    \/ \E p \in Ptr, n \in 0..MaxRequest : AllocatorDeallocate(p, n)

SpecVec == Init /\ [][NextVec]_vars

(* ------------------------------ claims -------------------------------- *)

\* Whether every malloc of the constructor succeeded.
AllocatorSucceeded == Cardinality(acquired) = capacity

\* The number of handles that hold pointer p.
Holders(p) == Cardinality({h \in Slots : handles[h] = p})

\* C1: from a freshly constructed pool of capacity N whose mallocs all succeeded,
\* the first N allocate() calls succeed with pairwise distinct blocks that malloc
\* returned, and call N+1 fails with bad_alloc.
C1_CapacityAllocationsThenExhausted ==
    (run.active /\ AllocatorSucceeded) =>
        \A i \in 1..Len(run.res) :
            /\ i <= capacity =>
                /\ run.res[i].ok
                /\ run.res[i].block \in acquired
                /\ \A j \in 1..(i - 1) : run.res[j].block # run.res[i].block
            /\ i = capacity + 1 => ~run.res[i].ok

\* Reached: a pool of capacity >= 2 after capacity + 1 consecutive allocate() calls.
C1_Witness ==
    /\ run.active
    /\ AllocatorSucceeded
    /\ capacity >= 2
    /\ Len(run.res) = capacity + 1

C3_ConstructorFailureReclaimsBlock ==
    [][(lastOp'.op = "create" /\ lastOp'.outcome = "ctor_throw")
          => Len(blocks') = Len(blocks)]_vars

\* C4: after the pool is destroyed every block malloc returned to the constructor
\* has been passed to free() exactly once, whatever was checked out.
C4_DestroyFreesEveryBlock ==
    phase = "destroyed" => \A a \in acquired : freed[a] = 1

\* C5: when a malloc of the constructor fails, construction fails, the blocks
\* acquired before are freed, and no pool with a null pointer in its free stack
\* comes to life.
C5_FailedConstructionLeavesNoPool ==
    /\ (lastOp.op = "construct" /\ ~AllocatorSucceeded) =>
          /\ phase = "ctor_failed"
          /\ \A a \in acquired : freed[a] = 1
    /\ (lastOp.op = "construct" /\ phase = "alive") => NULL \notin Range(blocks)

\* The effects of a release: none for an empty handle, else the destructor on a
\* live value in a block that is not in the free stack, then, the value gone, the
\* deallocate of that block.
ReleaseInOrder(log) ==
    \/ log = <<>>
    \/ /\ Len(log) = 2
       /\ log[1].ev = "dtor" /\ log[1].live /\ ~log[1].pooled
       /\ log[2].ev = "dealloc" /\ log[2].addr = log[1].addr
       /\ ~log[2].live /\ ~log[2].pooled

\* C6: a handle's block has one owner, so it is released at most once (no two
\* handles hold the same block, also after a move; a released handle is empty); a
\* value lives exactly as long as a handle holds its block, so its destructor runs
\* exactly once; and every release runs the destructor first, on a live value in
\* a checked-out block, and deallocates only then.
C6_ReleaseOnceDestructorThenDeallocate ==
    /\ \A a \in Addr : Holders(a) <= 1
    /\ \A a \in Addr : (value[a] # NoValue) <=> (Holders(a) = 1)
    /\ \A h \in Slots : handles[h] # NULL => handles[h] \notin Range(blocks)
    /\ lastOp.op \in {"release", "move"} => ReleaseInOrder(lastOp.log)
    /\ lastOp.op = "release" => ((lastOp.log = <<>>) <=> (lastOp.ret = NULL))

\* Reached: a handle holding a value was moved into a handle holding another one,
\* whose value was released by the move; the moved block is still held.
C6_Witness ==
    /\ lastOp.op = "move"
    /\ Len(lastOp.log) = 2
    /\ lastOp.ret # NULL
    /\ Holders(lastOp.ret) = 1
    /\ lastOp.log[2].addr \in Range(blocks)

\* C7: allocate() throws bad_alloc exactly when the free stack is empty; a failing
\* call leaves the free stack as it was; a succeeding call takes the returned
\* pointer out of it once and nothing else.
C7_AllocateFailsIffEmpty ==
    [][lastOp'.op = "allocate" =>
          /\ (lastOp'.outcome = "exhausted") <=> (blocks = <<>>)
          /\ lastOp'.outcome = "exhausted" => blocks' = blocks
          /\ lastOp'.outcome = "ok" =>
                /\ Len(blocks') = Len(blocks) - 1
                /\ \A p \in Ptr : Occurrences(blocks', p) =
                      Occurrences(blocks, p) - (IF p = lastOp'.ret THEN 1 ELSE 0)]_vars

\* Reached: an allocate() that failed on a pool all of whose blocks are out.
C7_Witness ==
    /\ lastOp.op = "allocate"
    /\ lastOp.outcome = "exhausted"
    /\ capacity >= 2
    /\ \E a \in Addr : out[a] = 1

\* C8: Create on an empty free stack ends with bad_alloc and changes neither the
\* free stack nor the handles nor any value.
C8_CreateOnExhaustedPoolChangesNothing ==
    [][(lastOp'.op = "create" /\ blocks = <<>>) =>
          /\ lastOp'.outcome = "exhausted"
          /\ UNCHANGED <<phase, blocks, handles, value, out>>]_vars

\* Reached: a Create that failed on an exhausted pool of capacity >= 1.
C8_Witness ==
    /\ lastOp.op = "create"
    /\ lastOp.outcome = "exhausted"
    /\ capacity >= 1
    /\ blocks = <<>>

\* C9: deallocate(allocate()) repeated on a pool with a free block leaves the
\* number of free blocks and the free set's contents as they were, and allocate()
\* succeeds afterwards.
C9_RoundTripKeepsFreeSet ==
    [][(lastOp'.op = "roundtrip" /\ blocks # <<>>) =>
          /\ lastOp'.outcome = "ok"
          /\ Len(blocks') = Len(blocks)
          /\ \A p \in Ptr : Occurrences(blocks', p) = Occurrences(blocks, p)
          /\ allocate(blocks').ok]_vars

\* Reached: a round trip of MaxRepeat repetitions on a pool with two free blocks.
C9_Witness ==
    /\ lastOp.op = "roundtrip"
    /\ lastOp.outcome = "ok"
    /\ lastOp.ret = MaxRepeat
    /\ Len(blocks) >= 2

\* A step that returns a block: a raw deallocate, or a handle release that ran the
\* deleter.
ReturnsBlock ==
    \/ lastOp'.op = "deallocate"
    \/ lastOp'.op \in {"release", "move"} /\ lastOp'.log # <<>>

\* C10: allocate() on an exhausted pool ends at once with bad_alloc, the pool
\* untouched (no retry), and once a block is returned to an exhausted pool, raw or
\* by a handle's release, the next allocate() succeeds.
C10_ExhaustionImmediateAndRecoverable ==
    [][/\ (lastOp'.op = "allocate" /\ blocks = <<>>) =>
             (lastOp'.outcome = "exhausted" /\ blocks' = <<>> /\ UNCHANGED <<phase, out>>)
       /\ (blocks = <<>> /\ ReturnsBlock) => allocate(blocks').ok]_vars

\* Reached: a handle released into a pool that was exhausted.
C10_Witness ==
    /\ lastOp.op = "release"
    /\ lastOp.log # <<>>
    /\ Len(blocks) = 1
    /\ capacity >= 2

\* C11: a successful Create(pool, v) takes exactly one block out of the free stack
\* and leaves it in the new handle with a value that reads v; the release of a
\* handle puts exactly the block it held back, the free count one higher.
C11_CreateTakesOneReleaseReturnsIt ==
    [][/\ (lastOp'.op = "create" /\ lastOp'.outcome = "ok") =>
             /\ Len(blocks') = Len(blocks) - 1
             /\ \A p \in Ptr : Occurrences(blocks', p) =
                   Occurrences(blocks, p) - (IF p = lastOp'.ret THEN 1 ELSE 0)
             /\ \E h \in Slots :
                   /\ handles[h] = NULL
                   /\ handles' = [handles EXCEPT ![h] = lastOp'.ret]
             /\ value'[lastOp'.ret] = lastOp'.log[1].arg
             /\ lastOp'.log[1].arg \in Values
       /\ (lastOp'.op = "release" /\ lastOp'.ret # NULL) =>
             /\ Len(blocks') = Len(blocks) + 1
             /\ blocks' = Append(blocks, lastOp'.ret)
             /\ \E h \in Slots : handles[h] = lastOp'.ret /\ handles'[h] = NULL]_vars

\* Reached: the handle made by create<int>(42) in a pool of capacity >= 2 was
\* released, its block back on top of the free stack.
C11_Witness ==
    /\ lastOp.op = "release"
    /\ lastOp.ret # NULL
    /\ lastOp.log[1].live
    /\ capacity >= 2
    /\ blocks # <<>>
    /\ blocks[Len(blocks)] = lastOp.ret

\* C12: hasAvailableMemory() answers true exactly when the free stack is not
\* empty, and the call leaves the pool (free stack, block size, capacity) and
\* everything its callers hold as they were.
C12_HasAvailableIsPureAndExact ==
    [][lastOp'.op = "hasAvailableMemory" =>
          /\ (lastOp'.outcome = "true") <=> (Len(blocks) > 0)
          /\ (lastOp'.outcome = "false") <=> (Len(blocks) = 0)
          /\ UNCHANGED <<phase, blocks, blockSize, capacity, out, handles, value>>]_vars

\* Reached: the query answered false on a pool of capacity >= 1 whose blocks are
\* all out.
C12_Witness ==
    /\ lastOp.op = "hasAvailableMemory"
    /\ lastOp.outcome = "false"
    /\ capacity >= 1
    /\ \E a \in Addr : out[a] + Holders(a) = 1

\* A step that follows the stack discipline: allocate() returns the pointer on top
\* of the free stack, the one added last, so the allocate() after deallocate(b)
\* returns b.
LifoStep ==
    /\ (lastOp'.op = "allocate" /\ lastOp'.outcome = "ok") =>
          lastOp'.ret = blocks[Len(blocks)]
    /\ lastOp'.op = "deallocate" =>
          (allocate(blocks').ok /\ allocate(blocks').block = lastOp'.ret)

\* The first calls on a fresh pool of capacity 2: two allocate() calls succeed with
\* distinct addresses and a third fails.
CapacityTwoScenario ==
    (run.active /\ capacity = 2) =>
        /\ Len(run.res) >= 1 => run.res[1].ok
        /\ Len(run.res) >= 2 => (run.res[2].ok /\ run.res[1].block # run.res[2].block)
        /\ Len(run.res) >= 3 => ~run.res[3].ok

\* C13: block selection is LIFO, and on a pool of capacity 2 two allocate() calls
\* return distinct addresses a1 and a2, a third fails with bad_alloc, and after
\* deallocate(a1) the next allocate() returns a1.
C13_LifoAndCapacityTwoScenario ==
    [][LifoStep /\ CapacityTwoScenario']_vars

\* C14: every pointer in the free stack and every pointer allocate() has handed out
\* is one malloc returned to the constructor, and no pointer is in the free stack
\* twice.
C14_FreeSetHoldsAcquiredBlocksOnce ==
    /\ \A i \in 1..Len(blocks) : blocks[i] \in acquired
    /\ \A p \in Ptr : out[p] > 0 => p \in acquired
    /\ \A h \in Slots : handles[h] # NULL => handles[h] \in acquired
    /\ \A i, j \in 1..Len(blocks) : i # j => blocks[i] # blocks[j]

\* C15: deallocate(p) pushes p and reports nothing whatever p is: a pointer already
\* in the free stack is then in it twice, a foreign pointer is then in it, and a
\* full free stack grows past the capacity.
C15_DeallocateValidatesNothing ==
    [][lastOp'.op = "deallocate" =>
          /\ lastOp'.outcome = "ok"
          /\ phase' = "alive"
          /\ blocks' = Append(blocks, lastOp'.ret)
          /\ lastOp'.ret \in Range(blocks) => Occurrences(blocks', lastOp'.ret) >= 2
          /\ Len(blocks) >= capacity => Len(blocks') > capacity]_vars

\* Reached: after a double free two allocate() calls returned the same block, and
\* the free stack, longer than the capacity, holds the foreign pointer.
C15_Witness ==
    /\ lastOp.op = "deallocate"
    /\ \E a \in Addr : out[a] >= 2
    /\ Len(blocks) > capacity
    /\ Foreign \in Range(blocks)

\* C16: a storage request through PoolAllocator follows the pool contract:
\* allocate(0) returns null and leaves the free stack alone; allocate(n), n > 0,
\* fails with bad_alloc on an empty free stack (which stays empty) and otherwise
\* removes exactly one block, the top one, whatever n is; deallocate(p, n) puts
\* exactly one block, p, back.
C16_AllocatorFollowsPoolContract ==
    [][/\ lastOp'.op = "allocator_allocate" =>
            LET n == lastOp'.log[1].arg IN
              IF n = 0
              THEN lastOp'.outcome = "ok" /\ lastOp'.ret = NULL /\ blocks' = blocks
              ELSE IF blocks = <<>>
                   THEN lastOp'.outcome = "exhausted" /\ blocks' = blocks
                   ELSE /\ lastOp'.outcome = "ok"
                        /\ lastOp'.ret = blocks[Len(blocks)]
                        /\ blocks' = SubSeq(blocks, 1, Len(blocks) - 1)
       /\ lastOp'.op = "allocator_deallocate" =>
            /\ lastOp'.outcome = "ok"
            /\ blocks' = Append(blocks, lastOp'.ret)]_vars

\* A request for more than one element was served with one block.
C16_Witness ==
    /\ lastOp.op = "allocator_allocate"
    /\ lastOp.outcome = "ok"
    /\ lastOp.log[1].arg = MaxRequest
    /\ lastOp.ret # NULL
    /\ Len(blocks) = capacity - 1

\* Nobody but the vector holds blocks of the pool: no raw caller, no other handle.
NoOtherConsumer ==
    /\ \A p \in AnyPtr : out[p] = 0
    /\ \A h \in Slots : handles[h] \in {NULL, vec.at}

\* C17: a growth step of the pool-backed vector allocates the new buffer before
\* the old one goes back, so a push_back on a full vector fails with bad_alloc
\* exactly when the free stack is empty at that moment, the old buffer it is about
\* to return notwithstanding, and then leaves the vector and the pool as they
\* were; a successful step takes the top block and returns the old buffer after
\* it.  In a pool of capacity two whose only consumer is the vector (one block for
\* the object, one free) the first growth succeeds and the second fails.
C17_GrowthExhaustsPool ==
    [][(lastOp'.op = "push_back" /\ vec.size = vec.cap) =>
         /\ lastOp'.outcome = "exhausted" <=> blocks = <<>>
         /\ lastOp'.outcome = "exhausted" => blocks' = blocks /\ vec' = vec
         /\ lastOp'.outcome = "ok" =>
              /\ vec'.buf = blocks[Len(blocks)]
              /\ blocks' = IF vec.buf = NULL
                            THEN SubSeq(blocks, 1, Len(blocks) - 1)
                            ELSE Append(SubSeq(blocks, 1, Len(blocks) - 1), vec.buf)
         /\ (capacity = 2 /\ AllocatorSucceeded /\ NoOtherConsumer) =>
              IF vec.buf = NULL THEN lastOp'.outcome = "ok"
              ELSE lastOp'.outcome = "exhausted"]_vars

\* The vector is the only consumer of a capacity-two pool, has one buffer, and its
\* second growth has just failed.
C17_Witness ==
    /\ lastOp.op = "push_back"
    /\ lastOp.outcome = "exhausted"
    /\ capacity = 2
    /\ AllocatorSucceeded
    /\ NoOtherConsumer
    /\ vec.buf # NULL
    /\ vec.size = vec.cap

\* The number of checked-out blocks: those with raw callers and those in handles.
CheckedOut ==
    Cardinality(UNION {{<<p, i>> : i \in 1..out[p]} : p \in AnyPtr})
        + Cardinality({h \in Slots : handles[h] # NULL})

\* The free set and the checked-out blocks are disjoint and together are the
\* capacity.
Conserved ==
    /\ \A i \in 1..Len(blocks) :
         out[blocks[i]] = 0 /\ \A h \in Slots : handles[h] # NULL => handles[h] # blocks[i]
    /\ \A i, j \in 1..Len(blocks) : blocks[i] = blocks[j] => i = j
    /\ Len(blocks) + CheckedOut = capacity
    /\ Len(blocks) <= capacity

\* C18: conservation: every step of allocate, deallocate, Create and handle release
\* under the deallocate precondition leaves a live pool with its free set and its
\* checked-out blocks disjoint and summing to the capacity, and changes neither
\* the capacity nor the block size.
C18_Conservation ==
    [][phase' = "alive" =>
         /\ Conserved'
         /\ phase = "alive" => capacity' = capacity /\ blockSize' = blockSize]_vars

\* C19: block-size safety: whatever is placed in a pool block fits in it: a
\* successful Create<T> constructs T in a block of at least sizeof(T) bytes, and a
\* successful PoolAllocator<T>::allocate(n), a container's own growth included,
\* hands out a block of at least n * sizeof(T) bytes.
C19_EveryPlacedValueFits ==
    (lastOp.op \in {"create", "push_back", "allocator_allocate"} /\ lastOp.outcome = "ok") =>
        \A i \in 1..Len(lastOp.log) : lastOp.log[i].need <= lastOp.log[i].have

\* C20: the PoolAllocator::allocate of src/main.cpp (hasAvailableMemory() checked
\* first) and the one of src/unnamed/part_000 (pool.allocate() called directly)
\* agree on every free stack the pool can have and every n: the same block or the
\* same bad_alloc, and the same free stack afterwards.
C20_AllocatorVariantsAgree ==
    \A n \in 0..MaxRequest :
        PoolAllocator_allocate(blocks, n) = PoolAllocator_allocate_part_000(blocks, n)

\* A request has just failed on an empty free stack, where the two variants throw
\* from different places.
C20_Witness ==
    /\ phase = "alive"
    /\ blocks = <<>>
    /\ capacity > 0
    /\ lastOp.op = "allocator_allocate"
    /\ lastOp.outcome = "exhausted"
====
